---- MODULE Spec2Model ----
(***************************************************************************)
(* Model of the Z80 emulator service (class Z80Emulator) and of the calls  *)
(* its driver makes on it.                                                 *)
(*                                                                         *)
(* The emulator owns one state object {registers, memory, halted, cycles}. *)
(* registers and memory are JavaScript objects, so the model keeps a heap  *)
(* for each: regHeap and memHeap map a reference to the object's contents, *)
(* and state/snapshot hold references.  A Uint8Array(65536) is modelled by *)
(* its non-zero cells (a function from address to 1..255); every other     *)
(* address in 0..65535 reads as 0, any index outside reads as undefined.   *)
(***************************************************************************)
EXTENDS Integers, Sequences, FiniteSets, TLC

VARIABLES
    regHeap,    \* reference -> contents of a registers object
    memHeap,    \* reference -> contents of a Uint8Array
    state,      \* this.state: [registers: ref, memory: ref, halted, cycles]
    snapshot,   \* the object the last getState() returned to the caller
    returned,   \* history: the deep value of snapshot at the time it was returned
    call,       \* history: the last public call, its arguments and its outcome
    total,      \* history: sum of the values step() has returned so far
    calls,      \* history: number of public calls made so far
    edits,      \* history: number of those calls that were not step()
    app,        \* the driver's own state: code, addressToLineMap, previousPC
    result      \* history: the AssemblyResult the last assemble() returned

vars == <<regHeap, memHeap, state, snapshot, returned, call, total, calls, edits,
          app, result>>

\* the variables of the emulator and of the calls made on it
cpuVars == <<regHeap, memHeap, state, snapshot, returned, call, total, calls, edits>>

\* the variables of the driver
appVars == <<app, result>>

(***************************************************************************)
(* Bounds of the exploration.                                              *)
(***************************************************************************)
MaxCalls == 3
MaxEdits == 2

(***************************************************************************)
(* Program constants.                                                      *)
(***************************************************************************)
MemSize == 65536

(***************************************************************************)
(* JavaScript integer operators, on two's-complement bits.  \div is floor  *)
(* division and % is non-negative, so x % 2 and x \div 2 walk the          *)
(* two's-complement bits of a negative x.  One operand of every use is a   *)
(* non-negative mask or byte, so bit 31 of a result is always 0.           *)
(***************************************************************************)
RECURSIVE Pow2(_)
Pow2(n) == IF n = 0 THEN 1 ELSE 2 * Pow2(n - 1)

\* the bitwise operator op applied to the low n bits of x and y; the
\* remaining bits of the result are all 0 once both operands are 0 (or,
\* for "and", once either is)
RECURSIVE Bitwise(_, _, _, _)
Bitwise(op, x, y, n) ==
    IF n = 0 \/ (x = 0 /\ y = 0) \/ (op = "and" /\ (x = 0 \/ y = 0)) THEN 0
    ELSE LET bx == x % 2
             by == y % 2
             b  == CASE op = "and" -> bx * by
                    [] op = "or"  -> IF bx + by > 0 THEN 1 ELSE 0
                    [] op = "xor" -> (bx + by) % 2
         IN b + 2 * Bitwise(op, x \div 2, y \div 2, n - 1)

And(x, y) == Bitwise("and", x, y, 31)
Or(x, y)  == Bitwise("or", x, y, 31)
Xor(x, y) == Bitwise("xor", x, y, 31)
Shl(x, n) == x * Pow2(n)
Shr(x, n) == x \div Pow2(n)

\* Conversion applied by a Uint8Array element store.
ToUint8(v) == v % 256

(***************************************************************************)
(* Uint8Array(65536) as its non-zero cells.                                *)
(***************************************************************************)
EmptyMemory == [x \in {} |-> 0]

InBounds(index) == index \in 0..(MemSize - 1)

\* memory[index] for an index inside the array
ReadMem(M, index) == IF index \in DOMAIN M THEN M[index] ELSE 0

\* memory[index] = v : the value is converted to a byte; a store outside
\* the array is ignored.
WriteMem(M, index, v) ==
    LET byte == ToUint8(v)
    IN IF ~InBounds(index) THEN M
       ELSE IF byte = 0
            THEN [x \in (DOMAIN M) \ {index} |-> M[x]]
            ELSE [x \in (DOMAIN M) \cup {index} |-> IF x = index THEN byte ELSE M[x]]

(***************************************************************************)
(* Register file.                                                          *)
(***************************************************************************)
Reg8Names  == {"a", "f", "b", "c", "d", "e", "h", "l", "i", "r"}
Reg16Names == {"pc", "sp", "ix", "iy"}
BoolNames  == {"iff1", "iff2"}
RegNames   == Reg8Names \cup Reg16Names \cup BoolNames \cup {"im"}

\* the values resetState() gives
resetState ==
    [registers |-> [a |-> 0, f |-> 0, b |-> 0, c |-> 0, d |-> 0, e |-> 0,
                    h |-> 0, l |-> 0, pc |-> 0, sp |-> 65535, ix |-> 0,
                    iy |-> 0, i |-> 0, r |-> 0, iff1 |-> FALSE,
                    iff2 |-> FALSE, im |-> 0],
     memory    |-> EmptyMemory,
     halted    |-> FALSE,
     cycles    |-> 0]

\* typeof this.state.registers[reg] === 'boolean'
IsBooleanReg(R, reg) == reg \in BoolNames

\* variant of RegMask: every numeric register is treated as 8 bits wide
RegMask_always8(reg) == 255

\* the mask chosen by setRegister for a numeric register
RegMask(reg) == IF reg = "pc" \/ reg = "sp" \/ reg = "ix" \/ reg = "iy"
                THEN 65535 ELSE 255

\* !!value for a number
Truthy(value) == value # 0

setRegister(m, reg, value) ==
    IF IsBooleanReg(m.registers, reg)
    THEN [m EXCEPT !.registers[reg] = Truthy(value)]
    ELSE [m EXCEPT !.registers[reg] = And(value, RegMask(reg))]

\* variant of MemAddr: the address is masked like a value
MemAddr_low8(address) == And(address, 255)

\* the address mask of setMemory
MemAddr(address) == And(address, 65535)

setMemory(m, address, value) ==
    [m EXCEPT !.memory = WriteMem(m.memory, MemAddr(address), And(value, 255))]

\* variant of LoadAddr: the address is not wrapped
LoadAddr_unmasked(origin, i) == origin + i

\* the address loadProgram stores bytes[i+1] at (i is zero-based)
LoadAddr(origin, i) == And(origin + i, 65535)

\* the value loadProgram leaves in pc
LoadPc(origin) == origin

RECURSIVE LoadFrom(_, _, _, _)
LoadFrom(M, origin, bytes, i) ==
    IF i >= Len(bytes) THEN M
    ELSE LoadFrom(WriteMem(M, LoadAddr(origin, i), bytes[i + 1]), origin, bytes, i + 1)

loadProgram(m, origin, bytes) ==
    [m EXCEPT !.memory = LoadFrom(m.memory, origin, bytes, 0),
              !.registers.pc = LoadPc(origin)]

(***************************************************************************)
(* Flags: the f register as eight booleans.                                *)
(***************************************************************************)
FlagNames == {"s", "z", "y", "h", "x", "pv", "n", "c"}

getFlags(f) ==
    [s  |-> And(f, 128) # 0,
     z  |-> And(f, 64) # 0,
     y  |-> And(f, 32) # 0,
     h  |-> And(f, 16) # 0,
     x  |-> And(f, 8) # 0,
     pv |-> And(f, 4) # 0,
     n  |-> And(f, 2) # 0,
     c  |-> And(f, 1) # 0]

\* if (cond) f |= mask
SetBit(f, cond, mask) == IF cond THEN Or(f, mask) ELSE f

\* variant of setFlags: a flag the caller does not give is cleared
setFlags_fromScratch(m, flags) ==
    LET updated == [k \in FlagNames |->
                       IF k \in DOMAIN flags THEN flags[k] ELSE FALSE]
    IN [m EXCEPT !.registers.f =
           SetBit(SetBit(SetBit(SetBit(SetBit(SetBit(SetBit(SetBit(0,
               updated.s, 128), updated.z, 64), updated.y, 32), updated.h, 16),
               updated.x, 8), updated.pv, 4), updated.n, 2), updated.c, 1)]

\* flags is a record with some of the fields of FlagNames (Partial<Flags>)
setFlags(m, flags) ==
    LET current == getFlags(m.registers.f)
        updated == [k \in FlagNames |->
                       IF k \in DOMAIN flags THEN flags[k] ELSE current[k]]
    IN [m EXCEPT !.registers.f =
           SetBit(SetBit(SetBit(SetBit(SetBit(SetBit(SetBit(SetBit(0,
               updated.s, 128), updated.z, 64), updated.y, 32), updated.h, 16),
               updated.x, 8), updated.pv, 4), updated.n, 2), updated.c, 1)]

(***************************************************************************)
(* Operand fetches.  Each returns the value read and the machine after it. *)
(***************************************************************************)
fetchByte(m) ==
    [value |-> ReadMem(m.memory, m.registers.pc),
     m     |-> [m EXCEPT !.registers.pc = And(m.registers.pc + 1, 65535)]]

\* variant of fetchSignedByte: the operand is taken as unsigned
fetchSignedByte_unsigned(m) == fetchByte(m)

fetchSignedByte(m) ==
    LET fb == fetchByte(m)
    IN [value |-> IF fb.value > 127 THEN fb.value - 256 ELSE fb.value,
        m     |-> fb.m]

\* variant of fetchWord: the first operand byte is taken as the high byte
fetchWord_bigEndian(m) ==
    LET low  == fetchByte(m)
        high == fetchByte(low.m)
    IN [value |-> Or(Shl(low.value, 8), high.value), m |-> high.m]

fetchWord(m) ==
    LET low  == fetchByte(m)
        high == fetchByte(low.m)
    IN [value |-> Or(Shl(high.value, 8), low.value), m |-> high.m]

(***************************************************************************)
(* Arithmetic and logic helpers.                                           *)
(***************************************************************************)
\* variant of inc8: overflow is judged on the result, not on the operand
inc8_pvOnResult(m, reg) ==
    LET val == m.registers[reg]
        res == And(val + 1, 255)
    IN setFlags([m EXCEPT !.registers[reg] = res],
                [s  |-> And(res, 128) # 0,
                 z  |-> res = 0,
                 h  |-> And(val, 15) = 15,
                 pv |-> res = 127,
                 n  |-> FALSE])

inc8(m, reg) ==
    LET val == m.registers[reg]
        res == And(val + 1, 255)
    IN setFlags([m EXCEPT !.registers[reg] = res],
                [s  |-> And(res, 128) # 0,
                 z  |-> res = 0,
                 h  |-> And(val, 15) = 15,
                 pv |-> val = 127,
                 n  |-> FALSE])

\* variant of dec8: the half-borrow test of inc8 is used
dec8_halfAsInc(m, reg) ==
    LET val == m.registers[reg]
        res == And(val - 1, 255)
    IN setFlags([m EXCEPT !.registers[reg] = res],
                [s  |-> And(res, 128) # 0,
                 z  |-> res = 0,
                 h  |-> And(val, 15) = 15,
                 pv |-> val = 128,
                 n  |-> TRUE])

dec8(m, reg) ==
    LET val == m.registers[reg]
        res == And(val - 1, 255)
    IN setFlags([m EXCEPT !.registers[reg] = res],
                [s  |-> And(res, 128) # 0,
                 z  |-> res = 0,
                 h  |-> And(val, 15) = 0,
                 pv |-> val = 128,
                 n  |-> TRUE])

\* variant of add8: overflow is taken to be the sign of the result
add8_pvIsSign(m, val) ==
    LET a   == m.registers.a
        res == a + val
        na  == And(res, 255)
    IN setFlags([m EXCEPT !.registers.a = na],
                [s  |-> And(na, 128) # 0,
                 z  |-> na = 0,
                 h  |-> And(a, 15) + And(val, 15) > 15,
                 pv |-> And(res, 128) # 0,
                 n  |-> FALSE,
                 c  |-> res > 255])

add8(m, val) ==
    LET a   == m.registers.a
        res == a + val
        na  == And(res, 255)
    IN setFlags([m EXCEPT !.registers.a = na],
                [s  |-> And(na, 128) # 0,
                 z  |-> na = 0,
                 h  |-> And(a, 15) + And(val, 15) > 15,
                 pv |-> And(And(Xor(a, res), Xor(val, res)), 128) # 0,
                 n  |-> FALSE,
                 c  |-> res > 255])

RECURSIVE ParityCount(_, _)
ParityCount(val, i) ==
    IF i >= 8 THEN 0
    ELSE (IF And(Shr(val, i), 1) # 0 THEN 1 ELSE 0) + ParityCount(val, i + 1)

\* variant of calculateParity: true for an odd number of set bits
calculateParity_odd(val) == ParityCount(val, 0) % 2 = 1

calculateParity(val) == ParityCount(val, 0) % 2 = 0

updateFlagsXor(m, res) ==
    setFlags(m, [s  |-> And(res, 128) # 0,
                 z  |-> res = 0,
                 h  |-> FALSE,
                 pv |-> calculateParity(res),
                 n  |-> FALSE,
                 c  |-> FALSE])

(***************************************************************************)
(* step().  The outcome is the machine after the call, and either the      *)
(* number returned or the fact that the call threw.                        *)
(***************************************************************************)
\* what an out-of-bounds read of the Uint8Array yields
Undefined == -1

Supported == {0, 6, 14, 22, 30, 38, 46, 62, 60, 61, 128, 175, 195, 24, 118}

Return(m, n) == [m |-> m, ret |-> n, threw |-> FALSE]
Throw(m)     == [m |-> m, ret |-> 0, threw |-> TRUE]

\* variant of IsHalted: step() has no halted guard
IsHalted_never(m) == FALSE

\* the halted guard at the head of step()
IsHalted(m) == m.halted

\* const opcode = this.state.memory[pc]
FetchOpcode(m) ==
    IF InBounds(m.registers.pc) THEN ReadMem(m.memory, m.registers.pc)
    ELSE Undefined

\* this.state.registers.pc = (pc + 1) & 0xFFFF
AdvancePc(pc) == And(pc + 1, 65535)

\* variant of LoadImmediate: the operand is read but pc stays on it
LoadImmediate_noFetch(m, reg) ==
    [m EXCEPT !.registers[reg] = ReadMem(m.memory, m.registers.pc)]

\* case 0x06 .. 0x3E: this.state.registers.<reg> = this.fetchByte()
LoadImmediate(m, reg) ==
    LET fb == fetchByte(m)
    IN [fb.m EXCEPT !.registers[reg] = fb.value]

\* variant of UnhandledOpcode: the default branch falls into HALT
UnhandledOpcode_halts(m, opcode) == Return([m EXCEPT !.halted = TRUE], 4)

\* the default branch: opcode.toString(16) throws when opcode is undefined
UnhandledOpcode(m, opcode) ==
    IF opcode = Undefined THEN Throw(m) ELSE Return(m, 4)

step(m) ==
    IF IsHalted(m) THEN Return(m, 0)
    ELSE
    LET pc     == m.registers.pc
        opcode == FetchOpcode(m)
        m1     == [m EXCEPT !.registers.pc = AdvancePc(pc)]
    IN CASE opcode = 0   -> Return(m1, 4)
         [] opcode = 6   -> Return(LoadImmediate(m1, "b"), 7)
         [] opcode = 14  -> Return(LoadImmediate(m1, "c"), 7)
         [] opcode = 22  -> Return(LoadImmediate(m1, "d"), 7)
         [] opcode = 30  -> Return(LoadImmediate(m1, "e"), 7)
         [] opcode = 38  -> Return(LoadImmediate(m1, "h"), 7)
         [] opcode = 46  -> Return(LoadImmediate(m1, "l"), 7)
         [] opcode = 62  -> Return(LoadImmediate(m1, "a"), 7)
         [] opcode = 60  -> Return(inc8(m1, "a"), 4)
         [] opcode = 61  -> Return(dec8(m1, "a"), 4)
         [] opcode = 128 -> Return(add8(m1, m1.registers.b), 4)
         [] opcode = 175 ->
              LET m2 == [m1 EXCEPT !.registers.a = Xor(m1.registers.a, m1.registers.a)]
              IN Return(updateFlagsXor(m2, m2.registers.a), 4)
         [] opcode = 195 ->
              LET fw == fetchWord(m1)
              IN Return([fw.m EXCEPT !.registers.pc = fw.value], 10)
         [] opcode = 24  ->
              LET fs == fetchSignedByte(m1)
              IN Return([fs.m EXCEPT !.registers.pc =
                            And(fs.m.registers.pc + fs.value, 65535)], 12)
         [] opcode = 118 -> Return([m1 EXCEPT !.halted = TRUE], 4)
         [] OTHER        -> UnhandledOpcode(m1, opcode)

(***************************************************************************)
(* getState(): { ...this.state, memory: new Uint8Array(this.state.memory) }*)
(* The spread copies the fields of this.state one level deep: halted and   *)
(* cycles by value, registers by reference.  memory is a newly allocated   *)
(* array holding a copy of the bytes.                                      *)
(***************************************************************************)
\* the reference stored in the registers field of the returned object
SpreadRegisters(st) == st.registers

\* the heap of arrays after new Uint8Array(contents); the array of the
\* snapshot the caller held before is dropped
AllocMem(mh, st, contents) == <<mh[st.memory], contents>>

getState(st, mh) ==
    LET mh2 == AllocMem(mh, st, mh[st.memory])
    IN [object  |-> [registers |-> SpreadRegisters(st),
                     memory    |-> Len(mh2),
                     halted    |-> st.halted,
                     cycles    |-> st.cycles],
        memHeap |-> mh2]

(***************************************************************************)
(* The state machine: one emulator instance and the calls made on it.      *)
(***************************************************************************)
\* the values an object's fields denote
Deep(st, rh, mh) ==
    [registers |-> rh[st.registers],
     memory    |-> mh[st.memory],
     halted    |-> st.halted,
     cycles    |-> st.cycles]

Live == Deep(state, regHeap, memHeap)

NoSnapshot == [registers |-> 0, memory |-> 0, halted |-> FALSE, cycles |-> 0]

NoCall == [op |-> "new", reg |-> "", address |-> 0, value |-> 0,
           bytes |-> << >>, opcode |-> Undefined, ret |-> 0, threw |-> FALSE,
           steps |-> 0]

\* arguments the calls are made with
RegValues    == {0, -1, 65836}
MemAddresses == {0, 65541, -1}
MemValues    == {1, 374}
Origins      == {0, 65535, 70000, -1}
Programs     == {<< >>, <<118>>, <<62, 300, 60>>, <<195, 52, 18>>,
                 <<24, 254>>, <<175, 128, 61>>}

\* an address-to-line map with no entry
EmptyMap == [x \in {} |-> 0]

\* useRef<number | null>(null)
Null == 0

\* the driver before it has assembled anything
\* runInterval.current is Null or the id of the interval handleRun started;
\* intervals are the ids the window will still call back, lastInterval the
\* last id setInterval returned
NoApp == [code |-> << >>, addressToLineMap |-> EmptyMap, previousPC |-> 0,
          isRunning |-> FALSE, runInterval |-> Null, intervals |-> {},
          lastInterval |-> 0, mounted |-> TRUE]

NoResult == [bytes |-> << >>, addressToLineMap |-> EmptyMap]

\* constructor: this.state = this.resetState()
Init ==
    /\ regHeap  = <<resetState.registers>>
    /\ memHeap  = <<resetState.memory>>
    /\ state    = [registers |-> 1, memory |-> 1,
                   halted |-> resetState.halted, cycles |-> resetState.cycles]
    /\ snapshot = NoSnapshot
    /\ returned = resetState
    /\ call     = NoCall
    /\ total    = 0
    /\ calls    = 0
    /\ edits    = 0
    /\ app      = NoApp
    /\ result   = NoResult

\* one more call other than step() may be made
Edit ==
    /\ calls < MaxCalls
    /\ edits < MaxEdits
    /\ calls' = calls + 1
    /\ edits' = edits + 1

\* write the machine m back into the objects this.state refers to
Commit(m) ==
    /\ regHeap' = [regHeap EXCEPT ![state.registers] = m.registers]
    /\ memHeap' = [memHeap EXCEPT ![state.memory] = m.memory]
    /\ state'   = [state EXCEPT !.halted = m.halted, !.cycles = m.cycles]

SetRegister(reg, value) ==
    /\ Edit
    /\ Commit(setRegister(Live, reg, value))
    /\ call' = [NoCall EXCEPT !.op = "setRegister", !.reg = reg, !.value = value]
    /\ UNCHANGED <<snapshot, returned, total>>
    /\ UNCHANGED appVars

SetMemory(address, value) ==
    /\ Edit
    /\ Commit(setMemory(Live, address, value))
    /\ call' = [NoCall EXCEPT !.op = "setMemory", !.address = address, !.value = value]
    /\ UNCHANGED <<snapshot, returned, total>>
    /\ UNCHANGED appVars

LoadProgram(origin, bytes) ==
    /\ Edit
    /\ Commit(loadProgram(Live, origin, bytes))
    /\ call' = [NoCall EXCEPT !.op = "loadProgram", !.address = origin, !.bytes = bytes]
    /\ UNCHANGED <<snapshot, returned, total>>
    /\ UNCHANGED appVars

\* one call of step()
DoStep ==
    /\ \E out \in {step(Live)} :
          /\ Commit(out.m)
          /\ call' = [NoCall EXCEPT !.op = "step",
                                    !.opcode = IF IsHalted(Live) THEN Undefined
                                               ELSE FetchOpcode(Live),
                                    !.ret = out.ret, !.threw = out.threw]
          /\ total' = IF out.threw THEN total ELSE total + out.ret
    /\ calls' = calls + 1
    /\ UNCHANGED <<snapshot, returned, edits>>

Step ==
    /\ calls < MaxCalls
    /\ DoStep
    /\ UNCHANGED appVars

GetState ==
    /\ Edit
    /\ LET out == getState(state, memHeap)
       IN /\ memHeap'  = out.memHeap
          /\ snapshot' = out.object
          /\ returned' = Deep(out.object, regHeap, out.memHeap)
    /\ call' = [NoCall EXCEPT !.op = "getState"]
    /\ UNCHANGED <<regHeap, state, total>>
    /\ UNCHANGED appVars

Next ==
    \/ \E reg \in RegNames, value \in RegValues : SetRegister(reg, value)
    \/ \E address \in MemAddresses, value \in MemValues : SetMemory(address, value)
    \/ \E origin \in Origins, bytes \in Programs : LoadProgram(origin, bytes)
    \/ Step
    \/ GetState

Spec == Init /\ [][Next]_vars

(***************************************************************************)
(* Vocabulary of the properties.                                           *)
(***************************************************************************)
\* the transition is a call of the named operation
Called(op) == call'.op = op /\ calls' = calls + 1

\* memories M and N agree on every address except those in the set except
SameMemoryExcept(M, N, except) ==
    \A x \in ((DOMAIN M) \cup (DOMAIN N)) \ except : ReadMem(M, x) = ReadMem(N, x)

IsByteSeq(bytes) == \A k \in 1..Len(bytes) : bytes[k] \in 0..255

\* step() fetched a byte that no case of the switch handles
Unimplemented(opcode) == opcode \in 0..255 /\ opcode \notin Supported

(***************************************************************************)
(* C1: a snapshot returned by getState() keeps the register values and the *)
(* memory bytes it had when it was returned, whatever calls follow.        *)
(***************************************************************************)
C1_SnapshotIndependent ==
    snapshot # NoSnapshot =>
        LET now == Deep(snapshot, regHeap, memHeap)
        IN /\ now.registers = returned.registers
           /\ now.memory = returned.memory

(***************************************************************************)
(* C2: state.cycles equals the sum of the values the step() calls returned.*)
(***************************************************************************)
C2_CyclesAccumulate == state.cycles = total

(***************************************************************************)
(* C3 as stated: step() on an unimplemented opcode returns 4 and leaves    *)
(* every register (pc included), every memory byte and halted untouched.   *)
(***************************************************************************)
C3_UnimplementedTouchesNothing ==
    [][(Called("step") /\ ~Live.halted /\ Unimplemented(FetchOpcode(Live)))
        => /\ call'.ret = 4 /\ ~call'.threw
           /\ Live'.registers = Live.registers
           /\ Live'.memory = Live.memory
           /\ Live'.halted = Live.halted]_vars

(***************************************************************************)
(* C3 amended: step() on an unimplemented opcode returns 4, advances pc by *)
(* one modulo 65536, and leaves every other register, every memory byte    *)
(* and halted untouched.                                                   *)
(***************************************************************************)
C3_UnimplementedOnlyAdvancesPc ==
    [][(Called("step") /\ ~Live.halted /\ Unimplemented(FetchOpcode(Live)))
        => /\ call'.ret = 4 /\ ~call'.threw
           /\ Live'.registers =
                  [Live.registers EXCEPT !.pc = (Live.registers.pc + 1) % 65536]
           /\ Live'.memory = Live.memory
           /\ Live'.halted = Live.halted]_vars

C3_Witness ==
    /\ call.op = "step" /\ Unimplemented(call.opcode)
    /\ call.ret = 4 /\ ~call.threw
    /\ Live.registers.pc = 0

(***************************************************************************)
(* C4: the result step() gives for an unimplemented opcode differs from    *)
(* the result it gives for an executed NOP.                                *)
(***************************************************************************)
\* what step() gives its caller when the byte at pc is opcode
OutcomeOf(opcode) ==
    LET out == step([resetState EXCEPT !.memory = WriteMem(EmptyMemory, 0, opcode)])
    IN [ret |-> out.ret, threw |-> out.threw]

C4_UnimplementedDistinctFromNop ==
    (call.op = "step" /\ Unimplemented(call.opcode))
        => [ret |-> call.ret, threw |-> call.threw] # OutcomeOf(0)

(***************************************************************************)
(* C5: every 8-bit register is in 0..255, every 16-bit register is in      *)
(* 0..65535, and memory holds 65536 bytes each in 0..255.                  *)
(***************************************************************************)
C5_RangeInvariant ==
    /\ \A reg \in Reg8Names : Live.registers[reg] \in 0..255
    /\ \A reg \in Reg16Names : Live.registers[reg] \in 0..65535
    /\ DOMAIN Live.memory \subseteq 0..(MemSize - 1)
    /\ \A x \in DOMAIN Live.memory : Live.memory[x] \in 0..255

(***************************************************************************)
(* C6: step() always completes and returns a cycle count; it never raises  *)
(* an error.                                                               *)
(***************************************************************************)
C6_StepNeverFails == call.op = "step" => ~call.threw

(***************************************************************************)
(* C7: when halted is true, step() returns 0 and changes no register, no   *)
(* memory byte, and neither halted nor cycles.                             *)
(***************************************************************************)
C7_HaltedStepIsNoOp ==
    [][(Called("step") /\ Live.halted)
        => /\ call'.ret = 0 /\ ~call'.threw
           /\ Live' = Live]_vars

C7_Witness ==
    /\ call.op = "step" /\ call.ret = 0 /\ ~call.threw
    /\ Live.halted
    /\ ReadMem(Live.memory, Live.registers.pc) # 118

(***************************************************************************)
(* C8: loadProgram(origin, bytes) stores bytes[i] at (origin + i) mod      *)
(* 65536 for every index i of the byte sequence, sets pc to origin, and    *)
(* leaves every other register, every memory byte the load does not        *)
(* address, halted and cycles unchanged; an empty sequence writes nothing. *)
(***************************************************************************)
C8_LoadProgramEffect ==
    [][(Called("loadProgram") /\ IsByteSeq(call'.bytes))
        => LET origin == call'.address
               bytes  == call'.bytes
               loaded == {(origin + i) % 65536 : i \in 0..(Len(bytes) - 1)}
           IN /\ \A i \in 0..(Len(bytes) - 1) :
                     ReadMem(Live'.memory, (origin + i) % 65536) = bytes[i + 1]
              /\ SameMemoryExcept(Live.memory, Live'.memory, loaded)
              /\ Live'.registers = [Live.registers EXCEPT !.pc = origin]
              /\ Live'.halted = Live.halted
              /\ Live'.cycles = Live.cycles
              /\ (bytes = << >> => Live'.memory = Live.memory)]_vars

C8_Witness ==
    /\ call.op = "loadProgram" /\ call.address = 65535
    /\ call.bytes = <<195, 52, 18>>
    /\ ReadMem(Live.memory, 65535) = 195
    /\ ReadMem(Live.memory, 0) = 52
    /\ ReadMem(Live.memory, 1) = 18
    /\ Live.registers.pc = 65535

(***************************************************************************)
(* C9: setRegister(name, value) stores value mod 65536 in pc, sp, ix, iy,  *)
(* value mod 256 in any other numeric register, value # 0 in iff1, iff2,   *)
(* never fails, and changes nothing else.                                  *)
(***************************************************************************)
C9_SetRegisterEffect ==
    [][Called("setRegister")
        => LET reg    == call'.reg
               value  == call'.value
               stored == IF reg \in {"pc", "sp", "ix", "iy"} THEN value % 65536
                         ELSE IF reg \in {"iff1", "iff2"} THEN value # 0
                         ELSE value % 256
           IN /\ ~call'.threw
              /\ Live'.registers = [Live.registers EXCEPT ![reg] = stored]
              /\ Live'.memory = Live.memory
              /\ Live'.halted = Live.halted
              /\ Live'.cycles = Live.cycles]_vars

C9_Witness ==
    /\ call.op = "setRegister" /\ call.reg = "sp" /\ call.value = 65836
    /\ Live.registers.sp = 300
    /\ Live.registers.iff1 = TRUE

(***************************************************************************)
(* C10: setMemory(address, value) stores value mod 256 at address mod      *)
(* 65536 and changes no other memory byte and no register; setMemory(      *)
(* 65536+5, v) leaves the state that setMemory(5, v) leaves.               *)
(***************************************************************************)
C10_SetMemoryEffect ==
    [][Called("setMemory")
        => LET address == call'.address
               value   == call'.value
           IN /\ ReadMem(Live'.memory, address % 65536) = value % 256
              /\ SameMemoryExcept(Live.memory, Live'.memory, {address % 65536})
              /\ Live'.registers = Live.registers
              /\ Live'.halted = Live.halted
              /\ Live'.cycles = Live.cycles
              /\ (address = 65536 + 5 => Live' = setMemory(Live, 5, value))]_vars

C10_Witness ==
    /\ call.op = "setMemory" /\ call.address = 65536 + 5 /\ call.value = 374
    /\ ReadMem(Live.memory, 5) = 118
    /\ ReadMem(Live.memory, 65535) = 1

(***************************************************************************)
(* Execution of one instruction from an arbitrary register state.          *)
(* Every state drawn here is one the public calls can set up: registers    *)
(* by setRegister, the opcode and its operands by setMemory.               *)
(***************************************************************************)
Byte == 0..255

\* program counters and operand bytes the jumps are tried with
PcSamples   == {0, 256, 65533, 65534, 65535}
ByteSamples == {0, 1, 18, 52, 127, 128, 254, 255}
FlagSamples == {0, 255}

\* registers a, b, f, pc as given, the opcode at pc and its operands after it
ExecMachine(a, b, f, pc, opcode, op1, op2) ==
    [resetState EXCEPT
        !.registers.a = a, !.registers.b = b, !.registers.f = f,
        !.registers.pc = pc,
        !.memory = WriteMem(WriteMem(WriteMem(EmptyMemory, pc, opcode),
                                     (pc + 1) % MemSize, op1),
                            (pc + 2) % MemSize, op2)]

InitCpu(m) ==
    /\ regHeap  = <<m.registers>>
    /\ memHeap  = <<m.memory>>
    /\ state    = [registers |-> 1, memory |-> 1,
                   halted |-> m.halted, cycles |-> m.cycles]
    /\ snapshot = NoSnapshot
    /\ returned = resetState
    /\ call     = NoCall
    /\ total    = 0
    /\ calls    = 0
    /\ edits    = 0

InitMachine(m) ==
    /\ InitCpu(m)
    /\ app      = NoApp
    /\ result   = NoResult

InitExec ==
    \/ \E a \in Byte, b \in Byte, f \in FlagSamples :
          InitMachine(ExecMachine(a, b, f, 0, 128, 0, 0))
    \/ \E a \in Byte, f \in Byte, opcode \in {60, 61, 175} :
          InitMachine(ExecMachine(a, 0, f, 0, opcode, 0, 0))
    \/ \E pc \in PcSamples, low \in ByteSamples, high \in ByteSamples,
          f \in FlagSamples :
          InitMachine(ExecMachine(0, 0, f, pc, 195, low, high))
    \/ \E pc \in PcSamples, e \in Byte, f \in FlagSamples :
          InitMachine(ExecMachine(0, 0, f, pc, 24, e, 0))

\* the first step() from the drawn state
ExecStep ==
    /\ calls = 0
    /\ DoStep
    /\ UNCHANGED appVars

NextExec == ExecStep

SpecExec == InitExec /\ [][NextExec]_vars

\* the transition is a step() that executes the given opcode
Executes(opcode) ==
    Called("step") /\ ~Live.halted /\ FetchOpcode(Live) = opcode

\* bit k of the flags register f, by arithmetic
Flag(f, k) == (f \div (2 ^ k)) % 2 = 1
FlagS(f)  == Flag(f, 7)
FlagZ(f)  == Flag(f, 6)
FlagH(f)  == Flag(f, 4)
FlagPV(f) == Flag(f, 2)
FlagN(f)  == Flag(f, 1)
FlagC(f)  == Flag(f, 0)

(***************************************************************************)
(* C12: ADD A,B stores A = (A + B) mod 256, sets S, Z, H, P/V (signed      *)
(* overflow), N = 0 and C from the operands, leaves B unchanged and        *)
(* returns 4.                                                              *)
(***************************************************************************)
C12_AddFlags ==
    [][Executes(128)
        => LET a   == Live.registers.a
               b   == Live.registers.b
               sum == (a + b) % 256
               f2  == Live'.registers.f
           IN /\ Live'.registers.a = sum
              /\ FlagS(f2) = (sum >= 128)
              /\ FlagZ(f2) = (sum = 0)
              /\ FlagH(f2) = ((a % 16) + (b % 16) > 15)
              /\ FlagPV(f2) = (((a >= 128) = (b >= 128)) /\ ((sum >= 128) # (a >= 128)))
              /\ FlagN(f2) = FALSE
              /\ FlagC(f2) = (a + b > 255)
              /\ Live'.registers.b = b
              /\ call'.ret = 4 /\ ~call'.threw]_vars

\* A = 0xFF, B = 0x01 has been added: A = 0 with Z, H, C set and S, N clear
C12_Witness ==
    /\ call.op = "step" /\ call.opcode = 128
    /\ Live.registers.a = 0 /\ Live.registers.b = 1
    /\ FlagZ(Live.registers.f) /\ FlagH(Live.registers.f) /\ FlagC(Live.registers.f)
    /\ ~FlagS(Live.registers.f) /\ ~FlagN(Live.registers.f)

(***************************************************************************)
(* C13: INC A stores A = (A + 1) mod 256, sets S, Z, H = (low nibble of A  *)
(* was 0xF), P/V = (A was 0x7F), N = 0, leaves C as it was and returns 4.  *)
(***************************************************************************)
C13_IncFlags ==
    [][Executes(60)
        => LET a   == Live.registers.a
               res == (a + 1) % 256
               f2  == Live'.registers.f
           IN /\ Live'.registers.a = res
              /\ FlagS(f2) = (res >= 128)
              /\ FlagZ(f2) = (res = 0)
              /\ FlagH(f2) = (a % 16 = 15)
              /\ FlagPV(f2) = (a = 127)
              /\ FlagN(f2) = FALSE
              /\ FlagC(f2) = FlagC(Live.registers.f)
              /\ call'.ret = 4 /\ ~call'.threw]_vars

\* A = 0x7F has been incremented: A = 0x80 with S, H, P/V set and Z, N clear
C13_Witness ==
    /\ call.op = "step" /\ call.opcode = 60
    /\ Live.registers.a = 128
    /\ FlagS(Live.registers.f) /\ FlagH(Live.registers.f) /\ FlagPV(Live.registers.f)
    /\ ~FlagZ(Live.registers.f) /\ ~FlagN(Live.registers.f)

(***************************************************************************)
(* C14: DEC A stores A = (A - 1) mod 256, sets S, Z, H = (low nibble of A  *)
(* was 0), P/V = (A was 0x80), N = 1, leaves C as it was and returns 4.    *)
(***************************************************************************)
C14_DecFlags ==
    [][Executes(61)
        => LET a   == Live.registers.a
               res == (a - 1) % 256
               f2  == Live'.registers.f
           IN /\ Live'.registers.a = res
              /\ FlagS(f2) = (res >= 128)
              /\ FlagZ(f2) = (res = 0)
              /\ FlagH(f2) = (a % 16 = 0)
              /\ FlagPV(f2) = (a = 128)
              /\ FlagN(f2) = TRUE
              /\ FlagC(f2) = FlagC(Live.registers.f)
              /\ call'.ret = 4 /\ ~call'.threw]_vars

\* A = 0x00 has been decremented: A = 0xFF with S, H, N set and Z, P/V clear
C14_Witness ==
    /\ call.op = "step" /\ call.opcode = 61
    /\ Live.registers.a = 255
    /\ FlagS(Live.registers.f) /\ FlagH(Live.registers.f) /\ FlagN(Live.registers.f)
    /\ ~FlagZ(Live.registers.f) /\ ~FlagPV(Live.registers.f)

(***************************************************************************)
(* C15: XOR A yields A = 0, S = 0, Z = 1, H = 0, N = 0, C = 0, P/V = 1 and *)
(* returns 4, whatever A and F were; and the parity helper is true exactly *)
(* for a byte with an even number of set bits.                             *)
(***************************************************************************)
RECURSIVE BitCount(_)
BitCount(v) == IF v = 0 THEN 0 ELSE (v % 2) + BitCount(v \div 2)

C15_XorFlags ==
    [][Executes(175)
        => LET f2 == Live'.registers.f
           IN /\ Live'.registers.a = 0
              /\ ~FlagS(f2) /\ FlagZ(f2) /\ ~FlagH(f2)
              /\ ~FlagN(f2) /\ ~FlagC(f2) /\ FlagPV(f2)
              /\ call'.ret = 4 /\ ~call'.threw
              /\ calculateParity(Live.registers.a)
                    = (BitCount(Live.registers.a) % 2 = 0)]_vars

\* XOR A has run on a state whose flags were all set
C15_Witness ==
    /\ call.op = "step" /\ call.opcode = 175
    /\ Live.registers.a = 0
    /\ Live.registers.f = 64 + 32 + 8 + 4

(***************************************************************************)
(* C16: JP nn sets pc to low + 256 * high, the operand bytes being read    *)
(* at (pc + 1) mod 65536 and (pc + 2) mod 65536, changes no other          *)
(* register, no flag and no memory byte, and returns 10.                   *)
(***************************************************************************)
C16_JpTarget ==
    [][Executes(195)
        => LET pc   == Live.registers.pc
               low  == ReadMem(Live.memory, (pc + 1) % 65536)
               high == ReadMem(Live.memory, (pc + 2) % 65536)
           IN /\ Live'.registers = [Live.registers EXCEPT !.pc = low + 256 * high]
              /\ Live'.memory = Live.memory
              /\ call'.ret = 10 /\ ~call'.threw]_vars

\* JP at 0xFFFF with operand bytes 0x34, 0x12 at 0 and 1 has jumped to 0x1234
C16_Witness ==
    /\ call.op = "step" /\ call.opcode = 195
    /\ ReadMem(Live.memory, 65535) = 195
    /\ ReadMem(Live.memory, 0) = 52 /\ ReadMem(Live.memory, 1) = 18
    /\ Live.registers.pc = 4660

(***************************************************************************)
(* C17: JR e sets pc to (p + s) mod 65536, p being the address after the   *)
(* two-byte instruction and s the operand as a signed byte; no other       *)
(* register, flag or memory byte changes, and the call returns 12.         *)
(***************************************************************************)
C17_JrTarget ==
    [][Executes(24)
        => LET pc == Live.registers.pc
               e  == ReadMem(Live.memory, (pc + 1) % 65536)
               p  == (pc + 2) % 65536
               sd == IF e <= 127 THEN e ELSE e - 256
           IN /\ Live'.registers = [Live.registers EXCEPT !.pc = (p + sd) % 65536]
              /\ Live'.registers.pc \in 0..65535
              /\ (e = 254 => Live'.registers.pc = pc)
              /\ Live'.memory = Live.memory
              /\ call'.ret = 12 /\ ~call'.threw]_vars

\* JR 0xFE at 0xFFFF: p = 1 and the jump goes back across address 0
C17_Witness ==
    /\ call.op = "step" /\ call.opcode = 24
    /\ ReadMem(Live.memory, 65535) = 24
    /\ ReadMem(Live.memory, 0) = 254
    /\ Live.registers.pc = 65535

(***************************************************************************)
(* Strings.  A JavaScript string is modelled as the sequence of its UTF-16 *)
(* code units, each a number.  Text writes such a sequence down by its     *)
(* characters.  toUpperCase follows the case mappings of the Unicode       *)
(* character database, which has no condition on the surrounding text for  *)
(* the upper case.                                                         *)
(***************************************************************************)
\* the characters with the code units 32..126, in order; the grave accent
\* at 96, which no text of the model holds, is left empty
Printable == <<
    " ", "!", "\"", "#", "$", "%", "&", "'", "(", ")", "*", "+", ",", "-", ".", "/",
    "0", "1", "2", "3", "4", "5", "6", "7", "8", "9", ":", ";", "<", "=", ">", "?",
    "@", "A", "B", "C", "D", "E", "F", "G", "H", "I", "J", "K", "L", "M", "N", "O",
    "P", "Q", "R", "S", "T", "U", "V", "W", "X", "Y", "Z", "[", "\\", "]", "^", "_",
    "",  "a", "b", "c", "d", "e", "f", "g", "h", "i", "j", "k", "l", "m", "n", "o",
    "p", "q", "r", "s", "t", "u", "v", "w", "x", "y", "z", "{", "|", "}", "~"
>>

CodeOf(c) ==
    IF c = "\n" THEN 10
    ELSE IF c = "\t" THEN 9
    ELSE 31 + (CHOOSE k \in 1..Len(Printable) : Printable[k] = c)

Text(t) == [k \in 1..Len(t) |-> CodeOf(t[k])]

\* WhiteSpace and LineTerminator of the language: what trim(), \s and
\* parseInt skip
IsSpace(c) ==
    \/ c \in {9, 10, 11, 12, 13, 32, 160, 5760, 8232, 8233, 8239, 8287, 12288, 65279}
    \/ c \in 8192..8202

\* The upper-case mappings of the code points above 255 that have one code
\* point for their capital, as <<first, last, step, offset>>: every step-th
\* code point from first to last has its capital offset further on
UpperRanges == {
    <<257, 303, 2, -1>>, <<305, 305, 1, -232>>, <<307, 311, 2, -1>>,
    <<314, 328, 2, -1>>, <<331, 375, 2, -1>>, <<378, 382, 2, -1>>,
    <<383, 383, 1, -300>>, <<384, 384, 1, 195>>, <<387, 389, 2, -1>>,
    <<392, 392, 1, -1>>, <<396, 396, 1, -1>>, <<402, 402, 1, -1>>,
    <<405, 405, 1, 97>>, <<409, 409, 1, -1>>, <<410, 410, 1, 163>>,
    <<411, 411, 1, 42561>>, <<414, 414, 1, 130>>, <<417, 421, 2, -1>>,
    <<424, 424, 1, -1>>, <<429, 429, 1, -1>>, <<432, 432, 1, -1>>,
    <<436, 438, 2, -1>>, <<441, 441, 1, -1>>, <<445, 445, 1, -1>>,
    <<447, 447, 1, 56>>, <<453, 453, 1, -1>>, <<454, 454, 1, -2>>,
    <<456, 456, 1, -1>>, <<457, 457, 1, -2>>, <<459, 459, 1, -1>>,
    <<460, 460, 1, -2>>, <<462, 476, 2, -1>>, <<477, 477, 1, -79>>,
    <<479, 495, 2, -1>>, <<498, 498, 1, -1>>, <<499, 499, 1, -2>>,
    <<501, 501, 1, -1>>, <<505, 543, 2, -1>>, <<547, 563, 2, -1>>,
    <<572, 572, 1, -1>>, <<575, 576, 1, 10815>>, <<578, 578, 1, -1>>,
    <<583, 591, 2, -1>>, <<592, 592, 1, 10783>>, <<593, 593, 1, 10780>>,
    <<594, 594, 1, 10782>>, <<595, 595, 1, -210>>, <<596, 596, 1, -206>>,
    <<598, 599, 1, -205>>, <<601, 601, 1, -202>>, <<603, 603, 1, -203>>,
    <<604, 604, 1, 42319>>, <<608, 608, 1, -205>>, <<609, 609, 1, 42315>>,
    <<611, 611, 1, -207>>, <<612, 612, 1, 42343>>, <<613, 613, 1, 42280>>,
    <<614, 614, 1, 42308>>, <<616, 616, 1, -209>>, <<617, 617, 1, -211>>,
    <<618, 618, 1, 42308>>, <<619, 619, 1, 10743>>, <<620, 620, 1, 42305>>,
    <<623, 623, 1, -211>>, <<625, 625, 1, 10749>>, <<626, 626, 1, -213>>,
    <<629, 629, 1, -214>>, <<637, 637, 1, 10727>>, <<640, 640, 1, -218>>,
    <<642, 642, 1, 42307>>, <<643, 643, 1, -218>>, <<647, 647, 1, 42282>>,
    <<648, 648, 1, -218>>, <<649, 649, 1, -69>>, <<650, 651, 1, -217>>,
    <<652, 652, 1, -71>>, <<658, 658, 1, -219>>, <<669, 669, 1, 42261>>,
    <<670, 670, 1, 42258>>, <<837, 837, 1, 84>>, <<881, 883, 2, -1>>,
    <<887, 887, 1, -1>>, <<891, 893, 1, 130>>, <<940, 940, 1, -38>>,
    <<941, 943, 1, -37>>, <<945, 961, 1, -32>>, <<962, 962, 1, -31>>,
    <<963, 971, 1, -32>>, <<972, 972, 1, -64>>, <<973, 974, 1, -63>>,
    <<976, 976, 1, -62>>, <<977, 977, 1, -57>>, <<981, 981, 1, -47>>,
    <<982, 982, 1, -54>>, <<983, 983, 1, -8>>, <<985, 1007, 2, -1>>,
    <<1008, 1008, 1, -86>>, <<1009, 1009, 1, -80>>, <<1010, 1010, 1, 7>>,
    <<1011, 1011, 1, -116>>, <<1013, 1013, 1, -96>>, <<1016, 1016, 1, -1>>,
    <<1019, 1019, 1, -1>>, <<1072, 1103, 1, -32>>, <<1104, 1119, 1, -80>>,
    <<1121, 1153, 2, -1>>, <<1163, 1215, 2, -1>>, <<1218, 1230, 2, -1>>,
    <<1231, 1231, 1, -15>>, <<1233, 1327, 2, -1>>, <<1377, 1414, 1, -48>>,
    <<4304, 4346, 1, 3008>>, <<4349, 4351, 1, 3008>>, <<5112, 5117, 1, -8>>,
    <<7296, 7296, 1, -6254>>, <<7297, 7297, 1, -6253>>, <<7298, 7298, 1, -6244>>,
    <<7299, 7300, 1, -6242>>, <<7301, 7301, 1, -6243>>, <<7302, 7302, 1, -6236>>,
    <<7303, 7303, 1, -6181>>, <<7304, 7304, 1, 35266>>, <<7306, 7306, 1, -1>>,
    <<7545, 7545, 1, 35332>>, <<7549, 7549, 1, 3814>>, <<7566, 7566, 1, 35384>>,
    <<7681, 7829, 2, -1>>, <<7835, 7835, 1, -59>>, <<7841, 7935, 2, -1>>,
    <<7936, 7943, 1, 8>>, <<7952, 7957, 1, 8>>, <<7968, 7975, 1, 8>>,
    <<7984, 7991, 1, 8>>, <<8000, 8005, 1, 8>>, <<8017, 8023, 2, 8>>,
    <<8032, 8039, 1, 8>>, <<8048, 8049, 1, 74>>, <<8050, 8053, 1, 86>>,
    <<8054, 8055, 1, 100>>, <<8056, 8057, 1, 128>>, <<8058, 8059, 1, 112>>,
    <<8060, 8061, 1, 126>>, <<8112, 8113, 1, 8>>, <<8126, 8126, 1, -7205>>,
    <<8144, 8145, 1, 8>>, <<8160, 8161, 1, 8>>, <<8165, 8165, 1, 7>>,
    <<8526, 8526, 1, -28>>, <<8560, 8575, 1, -16>>, <<8580, 8580, 1, -1>>,
    <<9424, 9449, 1, -26>>, <<11312, 11359, 1, -48>>, <<11361, 11361, 1, -1>>,
    <<11365, 11365, 1, -10795>>, <<11366, 11366, 1, -10792>>, <<11368, 11372, 2, -1>>,
    <<11379, 11379, 1, -1>>, <<11382, 11382, 1, -1>>, <<11393, 11491, 2, -1>>,
    <<11500, 11502, 2, -1>>, <<11507, 11507, 1, -1>>, <<11520, 11557, 1, -7264>>,
    <<11559, 11559, 1, -7264>>, <<11565, 11565, 1, -7264>>, <<42561, 42605, 2, -1>>,
    <<42625, 42651, 2, -1>>, <<42787, 42799, 2, -1>>, <<42803, 42863, 2, -1>>,
    <<42874, 42876, 2, -1>>, <<42879, 42887, 2, -1>>, <<42892, 42892, 1, -1>>,
    <<42897, 42899, 2, -1>>, <<42900, 42900, 1, 48>>, <<42903, 42921, 2, -1>>,
    <<42933, 42947, 2, -1>>, <<42952, 42954, 2, -1>>, <<42957, 42971, 2, -1>>,
    <<42998, 42998, 1, -1>>, <<43859, 43859, 1, -928>>, <<43888, 43967, 1, -38864>>,
    <<65345, 65370, 1, -32>>, <<66600, 66639, 1, -40>>, <<66776, 66811, 1, -40>>,
    <<66967, 67003, 2, -39>>, <<66968, 66976, 2, -39>>, <<66980, 66992, 2, -39>>,
    <<66996, 67000, 2, -39>>, <<67004, 67004, 1, -39>>, <<68800, 68850, 1, -64>>,
    <<68976, 68997, 1, -32>>, <<71872, 71903, 1, -32>>, <<93792, 93823, 1, -32>>,
    <<93883, 93907, 1, -27>>, <<125218, 125251, 1, -34>>
}

\* The code points above 255 whose capital is several characters (the
\* ligatures, the Greek letters with iota subscript, ...), each with the
\* code units of its capital
UpperSpecial == {
    <<329, <<700, 78>>>>, <<496, <<74, 780>>>>, <<912, <<921, 776, 769>>>>,
    <<944, <<933, 776, 769>>>>, <<1415, <<1333, 1362>>>>, <<7830, <<72, 817>>>>,
    <<7831, <<84, 776>>>>, <<7832, <<87, 778>>>>, <<7833, <<89, 778>>>>,
    <<7834, <<65, 702>>>>, <<8016, <<933, 787>>>>, <<8018, <<933, 787, 768>>>>,
    <<8020, <<933, 787, 769>>>>, <<8022, <<933, 787, 834>>>>, <<8064, <<7944, 921>>>>,
    <<8065, <<7945, 921>>>>, <<8066, <<7946, 921>>>>, <<8067, <<7947, 921>>>>,
    <<8068, <<7948, 921>>>>, <<8069, <<7949, 921>>>>, <<8070, <<7950, 921>>>>,
    <<8071, <<7951, 921>>>>, <<8072, <<7944, 921>>>>, <<8073, <<7945, 921>>>>,
    <<8074, <<7946, 921>>>>, <<8075, <<7947, 921>>>>, <<8076, <<7948, 921>>>>,
    <<8077, <<7949, 921>>>>, <<8078, <<7950, 921>>>>, <<8079, <<7951, 921>>>>,
    <<8080, <<7976, 921>>>>, <<8081, <<7977, 921>>>>, <<8082, <<7978, 921>>>>,
    <<8083, <<7979, 921>>>>, <<8084, <<7980, 921>>>>, <<8085, <<7981, 921>>>>,
    <<8086, <<7982, 921>>>>, <<8087, <<7983, 921>>>>, <<8088, <<7976, 921>>>>,
    <<8089, <<7977, 921>>>>, <<8090, <<7978, 921>>>>, <<8091, <<7979, 921>>>>,
    <<8092, <<7980, 921>>>>, <<8093, <<7981, 921>>>>, <<8094, <<7982, 921>>>>,
    <<8095, <<7983, 921>>>>, <<8096, <<8040, 921>>>>, <<8097, <<8041, 921>>>>,
    <<8098, <<8042, 921>>>>, <<8099, <<8043, 921>>>>, <<8100, <<8044, 921>>>>,
    <<8101, <<8045, 921>>>>, <<8102, <<8046, 921>>>>, <<8103, <<8047, 921>>>>,
    <<8104, <<8040, 921>>>>, <<8105, <<8041, 921>>>>, <<8106, <<8042, 921>>>>,
    <<8107, <<8043, 921>>>>, <<8108, <<8044, 921>>>>, <<8109, <<8045, 921>>>>,
    <<8110, <<8046, 921>>>>, <<8111, <<8047, 921>>>>, <<8114, <<8122, 921>>>>,
    <<8115, <<913, 921>>>>, <<8116, <<902, 921>>>>, <<8118, <<913, 834>>>>,
    <<8119, <<913, 834, 921>>>>, <<8124, <<913, 921>>>>, <<8130, <<8138, 921>>>>,
    <<8131, <<919, 921>>>>, <<8132, <<905, 921>>>>, <<8134, <<919, 834>>>>,
    <<8135, <<919, 834, 921>>>>, <<8140, <<919, 921>>>>, <<8146, <<921, 776, 768>>>>,
    <<8147, <<921, 776, 769>>>>, <<8150, <<921, 834>>>>, <<8151, <<921, 776, 834>>>>,
    <<8162, <<933, 776, 768>>>>, <<8163, <<933, 776, 769>>>>, <<8164, <<929, 787>>>>,
    <<8166, <<933, 834>>>>, <<8167, <<933, 776, 834>>>>, <<8178, <<8186, 921>>>>,
    <<8179, <<937, 921>>>>, <<8180, <<911, 921>>>>, <<8182, <<937, 834>>>>,
    <<8183, <<937, 834, 921>>>>, <<8188, <<937, 921>>>>, <<64256, <<70, 70>>>>,
    <<64257, <<70, 73>>>>, <<64258, <<70, 76>>>>, <<64259, <<70, 70, 73>>>>,
    <<64260, <<70, 70, 76>>>>, <<64261, <<83, 84>>>>, <<64262, <<83, 84>>>>,
    <<64275, <<1348, 1350>>>>, <<64276, <<1348, 1333>>>>, <<64277, <<1348, 1339>>>>,
    <<64278, <<1358, 1350>>>>, <<64279, <<1348, 1341>>>>
}

\* the upper case of the code point p, as a code point, where it is one
UpperPoint(p) ==
    IF \E r \in UpperRanges : p \in r[1]..r[2] /\ (p - r[1]) % r[3] = 0
    THEN LET r == CHOOSE r \in UpperRanges : p \in r[1]..r[2] /\ (p - r[1]) % r[3] = 0
         IN p + r[4]
    ELSE p

IsHighSurrogate(c) == c \in 55296..56319
IsLowSurrogate(c)  == c \in 56320..57343

\* the code point a surrogate pair stands for, and back
PointOf(high, low) == 65536 + (high - 55296) * 1024 + (low - 56320)

UnitsOf(p) ==
    IF p < 65536 THEN <<p>>
    ELSE <<55296 + ((p - 65536) \div 1024), 56320 + ((p - 65536) % 1024)>>

\* c.toUpperCase() for one code unit: the sharp s becomes SS, the micro
\* sign the Greek capital mu, y with diaeresis its capital at 376, the
\* dotless i becomes I, the ligature ff becomes FF; a surrogate on its own
\* is kept
UpperChar(c) ==
    IF c < 128 THEN (IF c \in 97..122 THEN <<c - 32>> ELSE <<c>>)
    ELSE IF c = 181 THEN <<924>>
    ELSE IF c = 223 THEN <<83, 83>>
    ELSE IF c \in 224..254 /\ c # 247 THEN <<c - 32>>
    ELSE IF c = 255 THEN <<376>>
    ELSE IF c < 256 THEN <<c>>
    ELSE IF \E e \in UpperSpecial : e[1] = c
    THEN (CHOOSE e \in UpperSpecial : e[1] = c)[2]
    ELSE <<UpperPoint(c)>>

\* s.toUpperCase(): character by character, a surrogate pair being one
\* character
RECURSIVE toUpperCase(_)
toUpperCase(s) ==
    IF s = << >> THEN << >>
    ELSE IF Len(s) >= 2 /\ IsHighSurrogate(s[1]) /\ IsLowSurrogate(s[2])
    THEN UnitsOf(UpperPoint(PointOf(s[1], s[2]))) \o toUpperCase(SubSeq(s, 3, Len(s)))
    ELSE UpperChar(Head(s)) \o toUpperCase(Tail(s))

RECURSIVE TrimStart(_)
TrimStart(s) == IF s # << >> /\ IsSpace(Head(s)) THEN TrimStart(Tail(s)) ELSE s

RECURSIVE TrimEnd(_)
TrimEnd(s) ==
    IF s # << >> /\ IsSpace(s[Len(s)]) THEN TrimEnd(SubSeq(s, 1, Len(s) - 1)) ELSE s

\* s.trim()
trim(s) == TrimEnd(TrimStart(s))

\* s.split(sep) for a one-character separator: the pieces between the
\* separators, empty pieces included
split(s, sep) ==
    LET at == {k \in 1..Len(s) : s[k] = sep}
        \* the position of the n-th separator; the text is taken to lie
        \* between a separator at 0 and one past its end
        cut(n) == IF n = 0 THEN 0
                  ELSE IF n > Cardinality(at) THEN Len(s) + 1
                  ELSE CHOOSE k \in at : Cardinality({x \in at : x <= k}) = n
    IN [n \in 1..(Cardinality(at) + 1) |-> SubSeq(s, cut(n - 1) + 1, cut(n) - 1)]

\* the index of the first character at or after k that is not white space
RECURSIVE SkipSpace(_, _)
SkipSpace(s, k) == IF k <= Len(s) /\ IsSpace(s[k]) THEN SkipSpace(s, k + 1) ELSE k

\* s.split(/\s+/): the pieces between the runs of white space
RECURSIVE SplitSpaceFrom(_, _, _)
SplitSpaceFrom(s, k, cur) ==
    IF k > Len(s) THEN <<cur>>
    ELSE IF IsSpace(s[k]) THEN <<cur>> \o SplitSpaceFrom(s, SkipSpace(s, k), << >>)
    ELSE SplitSpaceFrom(s, k + 1, Append(cur, s[k]))

splitSpace(s) == SplitSpaceFrom(s, 1, << >>)

\* parts.join(sep)
RECURSIVE join(_, _)
join(parts, sep) ==
    IF parts = << >> THEN << >>
    ELSE IF Len(parts) = 1 THEN parts[1]
    ELSE parts[1] \o sep \o join(Tail(parts), sep)

(***************************************************************************)
(* Numbers.  parseInt(s, 16) yields a double: NaN, or the integer the      *)
(* digits denote rounded to 53 significant bits, or Infinity.  An integer  *)
(* is held as its binary digits, the most significant first and no leading *)
(* zero, since it can exceed every bound of the checker's integers.        *)
(***************************************************************************)
IsHexDigit(c) == c \in 48..57 \/ c \in 65..70 \/ c \in 97..102

HexDigitValue(c) ==
    IF c \in 48..57 THEN c - 48
    ELSE IF c \in 65..70 THEN c - 55
    ELSE c - 87

\* the longest prefix of s made of hexadecimal digits
RECURSIVE HexPrefix(_)
HexPrefix(s) ==
    IF s # << >> /\ IsHexDigit(Head(s)) THEN <<Head(s)>> \o HexPrefix(Tail(s))
    ELSE << >>

\* the four binary digits of each hexadecimal digit
RECURSIVE HexBits(_)
HexBits(digits) ==
    IF digits = << >> THEN << >>
    ELSE LET v == HexDigitValue(Head(digits))
         IN <<(v \div 8) % 2, (v \div 4) % 2, (v \div 2) % 2, v % 2>>
            \o HexBits(Tail(digits))

RECURSIVE StripZeros(_)
StripZeros(bits) ==
    IF bits # << >> /\ Head(bits) = 0 THEN StripZeros(Tail(bits)) ELSE bits

Zeros(n) == [k \in 1..n |-> 0]

\* bits + 1
Increment(bits) ==
    IF \A k \in 1..Len(bits) : bits[k] = 1 THEN <<1>> \o Zeros(Len(bits))
    ELSE LET last == CHOOSE k \in 1..Len(bits) :
                        bits[k] = 0 /\ \A j \in (k + 1)..Len(bits) : bits[j] = 1
         IN SubSeq(bits, 1, last - 1) \o <<1>> \o Zeros(Len(bits) - last)

\* the significant bits a double holds
MantissaBits == 53

\* the nearest double, ties to the even one
RoundToDouble(bits) ==
    IF Len(bits) <= MantissaBits THEN bits
    ELSE LET top  == SubSeq(bits, 1, MantissaBits)
             rest == SubSeq(bits, MantissaBits + 1, Len(bits))
             up   == /\ rest[1] = 1
                     /\ \/ \E k \in 2..Len(rest) : rest[k] = 1
                        \/ top[MantissaBits] = 1
         IN (IF up THEN Increment(top) ELSE top) \o Zeros(Len(rest))

\* a double is finite below 2^1024
MaxDoubleBits == 1024

NaN == [nan |-> TRUE, negative |-> FALSE, infinite |-> FALSE, bits |-> << >>]

\* parseInt(s, 16): leading white space, a sign and a 0x prefix are skipped;
\* the result is NaN when no digit follows
parseInt(s) ==
    LET t        == TrimStart(s)
        negative == t # << >> /\ Head(t) = 45
        unsigned == IF t # << >> /\ Head(t) \in {45, 43} THEN Tail(t) ELSE t
        body     == IF Len(unsigned) >= 2 /\ unsigned[1] = 48
                       /\ unsigned[2] \in {120, 88}
                    THEN SubSeq(unsigned, 3, Len(unsigned)) ELSE unsigned
        digits   == HexPrefix(body)
        rounded  == RoundToDouble(StripZeros(HexBits(digits)))
    IN IF digits = << >> THEN NaN
       ELSE [nan |-> FALSE, negative |-> negative,
             infinite |-> Len(rounded) > MaxDoubleBits,
             bits |-> IF Len(rounded) > MaxDoubleBits THEN << >> ELSE rounded]

\* the integer that at most 31 binary digits denote
RECURSIVE BitsValue(_, _)
BitsValue(bits, acc) ==
    IF bits = << >> THEN acc ELSE BitsValue(Tail(bits), 2 * acc + Head(bits))

MinInt32 == (0 - 1073741824) - 1073741824

\* ToInt32, which the operators & and >> apply to their operands: NaN and
\* the infinities give 0, an integer its residue modulo 2^32 in
\* -2^31 .. 2^31 - 1
ToInt32(num) ==
    IF num.nan \/ num.infinite THEN 0
    ELSE LET len    == Len(num.bits)
             low    == BitsValue(SubSeq(num.bits, IF len > 31 THEN len - 30 ELSE 1, len), 0)
             signed == IF len >= 32 /\ num.bits[len - 31] = 1
                       THEN (low - 1073741824) - 1073741824 ELSE low
         IN IF ~num.negative \/ signed = MinInt32 THEN signed ELSE 0 - signed

\* what a missing array element converts to where a string is expected
UndefinedString == Text(<<"u", "n", "d", "e", "f", "i", "n", "e", "d">>)

\* args[k] for a zero-based k
ArgAt(args, k) == IF k + 1 <= Len(args) THEN args[k + 1] ELSE UndefinedString

(***************************************************************************)
(* assemble(code)                                                          *)
(***************************************************************************)
RegB == Text(<<"B">>)
RegC == Text(<<"C">>)
RegD == Text(<<"D">>)
RegE == Text(<<"E">>)
RegH == Text(<<"H">>)
RegL == Text(<<"L">>)
RegA == Text(<<"A">>)

regMap_swapped(reg) ==
    CASE reg = RegB -> 62
      [] reg = RegC -> 14
      [] reg = RegD -> 22
      [] reg = RegE -> 30
      [] reg = RegH -> 38
      [] reg = RegL -> 46
      [] reg = RegA -> 6
      [] OTHER -> Undefined

\* regMap[reg]; Undefined when reg is not a key
regMap(reg) ==
    CASE reg = RegB -> 6
      [] reg = RegC -> 14
      [] reg = RegD -> 22
      [] reg = RegE -> 30
      [] reg = RegH -> 38
      [] reg = RegL -> 46
      [] reg = RegA -> 62
      [] OTHER -> Undefined

\* the separators the text is split at
LineFeed  == CodeOf("\n")
Semicolon == CodeOf(";")
Comma     == CodeOf(",")

\* line.trim().toUpperCase().split(';')[0].trim()
Clean(line) == trim(split(toUpperCase(trim(line)), Semicolon)[1])

\* parts.slice(1).join('').split(',').map(a => a.trim())
Args(parts) ==
    LET raw == split(join(Tail(parts), << >>), Comma)
    IN [k \in 1..Len(raw) |-> trim(raw[k])]

\* the bytes of LD reg, val
EncodeLd(args) ==
    LET reg == ArgAt(args, 0)
        val == parseInt(ArgAt(args, 1))
    IN IF regMap(reg) # Undefined /\ ~val.nan
       THEN <<regMap(reg), And(ToInt32(val), 255)>>
       ELSE << >>

\* the bytes of JP addr
EncodeJp(args) ==
    LET addr == parseInt(ArgAt(args, 0))
    IN IF ~addr.nan
       THEN <<195, And(ToInt32(addr), 255), And(Shr(ToInt32(addr), 8), 255)>>
       ELSE << >>


\* bytesForThisLine for a line whose clean text is not empty
Encode(inst, args) ==
    CASE inst = Text(<<"N", "O", "P">>) -> <<0>>
      [] inst = Text(<<"H", "A", "L", "T">>) -> <<118>>
      [] inst = Text(<<"X", "O", "R">>) /\ ArgAt(args, 0) = RegA -> <<175>>
      [] inst = Text(<<"L", "D">>) -> EncodeLd(args)
      [] inst = Text(<<"I", "N", "C">>) /\ ArgAt(args, 0) = RegA -> <<60>>
      [] inst = Text(<<"D", "E", "C">>) /\ ArgAt(args, 0) = RegA -> <<61>>
      [] inst = Text(<<"A", "D", "D">>) /\ ArgAt(args, 0) = RegA
            /\ ArgAt(args, 1) = RegB -> <<128>>
      [] inst = Text(<<"J", "P">>) -> EncodeJp(args)
      [] OTHER -> << >>

\* bytesForThisLine, empty also for a line that is skipped
bytesForThisLine(line) ==
    LET clean == Clean(line)
        parts == splitSpace(clean)
    IN IF clean = << >> THEN << >> ELSE Encode(parts[1], Args(parts))

MapBytes_firstOnly(map, currentAddress, length, lineIndex) ==
    LET added == IF length > 0 THEN {currentAddress} ELSE {}
    IN [x \in (DOMAIN map) \cup added |-> IF x \in added THEN lineIndex ELSE map[x]]

\* for (i < length) addressToLineMap[currentAddress + i] = lineIndex
MapBytes(map, currentAddress, length, lineIndex) ==
    LET added == currentAddress..(currentAddress + length - 1)
    IN [x \in (DOMAIN map) \cup added |-> IF x \in added THEN lineIndex ELSE map[x]]

\* lines.forEach from the zero-based lineIndex on
RECURSIVE AssembleFrom(_, _, _, _)
AssembleFrom(lines, lineIndex, program, map) ==
    IF lineIndex >= Len(lines) THEN [bytes |-> program, addressToLineMap |-> map]
    ELSE LET bytes == bytesForThisLine(lines[lineIndex + 1])
         IN AssembleFrom(lines, lineIndex + 1, program \o bytes,
                         MapBytes(map, Len(program), Len(bytes), lineIndex))

assemble(code) == AssembleFrom(split(code, LineFeed), 0, << >>, EmptyMap)

(***************************************************************************)
(* The driver: the first render holds INITIAL_CODE, which the mount         *)
(* assembles and loads at address 0.  The user steps the processor, or     *)
(* first types another text and presses Assemble, which loads the new      *)
(* bytes at 0 over the old ones.                                           *)
(***************************************************************************)
\* the longest source text built from the line pool, in lines
MaxLines == 2

\* the number of steps the driver makes after assembling
MaxSteps == 7

INITIAL_CODE ==
    Text(<<";", " ", "Z", "8", "0", " ", "R", "e", "t", "r", "o", " ", "D", "e",
      "m", "o", "\n", ";", " ", "C", "l", "e", "a", "r", " ", "A", "c",
      "c", "u", "m", "u", "l", "a", "t", "o", "r", "\n", "X", "O", "R",
      " ", "A", "\n", ";", " ", "L", "o", "a", "d", " ", "A", " ", "w",
      "i", "t", "h", " ", "0", "5", "h", "\n", "L", "D", " ", "A", ",",
      " ", "0", "5", "\n", ";", " ", "L", "o", "a", "d", " ", "B", " ",
      "w", "i", "t", "h", " ", "0", "A", "h", "\n", "L", "D", " ", "B",
      ",", " ", "0", "A", "\n", ";", " ", "A", "d", "d", " ", "B", " ",
      "t", "o", " ", "A", "\n", "A", "D", "D", " ", "A", ",", " ", "B",
      "\n", ";", " ", "I", "n", "c", "r", "e", "m", "e", "n", "t", " ",
      "r", "e", "s", "u", "l", "t", "\n", "I", "N", "C", " ", "A", "\n",
      ";", " ", "L", "o", "o", "p", " ", "b", "a", "c", "k", "\n", "J",
      "P", " ", "0", "0", "0", "0", "\n", "H", "A", "L", "T">>)

\* the six-line program of the end-to-end scenario
DemoSource ==
    Text(<<"X", "O", "R", " ", "A", "\n", "L", "D", " ", "A", ",", " ", "0",
      "5", "\n", "L", "D", " ", "B", ",", " ", "0", "A", "\n", "A", "D",
      "D", " ", "A", ",", " ", "B", "\n", "I", "N", "C", " ", "A", "\n",
      "H", "A", "L", "T">>)

\* source lines the editor's text is built from
LinePool == <<
    Text(<<"N", "O", "P">>),
    Text(<<"H", "A", "L", "T">>),
    Text(<<"X", "O", "R", " ", "A">>),
    Text(<<"L", "D", " ", "A", ",", " ", "0", "5">>),
    Text(<<"L", "D", " ", "B", ",", " ", "0", "A">>),
    Text(<<"A", "D", "D", " ", "A", ",", " ", "B">>),
    Text(<<"I", "N", "C", " ", "A">>),
    Text(<<"D", "E", "C", " ", "A">>),
    Text(<<"J", "P", " ", "1", "2", "3", "4">>),
    << >>,
    Text(<<";", " ", "C", "l", "e", "a", "r">>),
    Text(<<" ", " ", "l", "d", " ", "c", ",", " ", "f", "f", " ", ";", " ", "x">>),
    Text(<<"F", "O", "O", " ", "B", "A", "R">>),
    Text(<<"L", "D", " ", "H", ",", " ", "1", "F", "F">>),
    Text(<<"J", "P", " ", "1", "2", "3", "4", "5">>),
    Text(<<"L", "D", " ", "D", ",", " ", "1", "6">>),
    Text(<<"L", "D", " ", "E", ",", "1", "e">>),
    Text(<<"L", "D", " ", "L", ",", " ", "2", "E">>),
    Text(<<"L", "D", " ", "X", ",", " ", "0", "5">>),
    Text(<<"L", "D", " ", "A">>),
    Text(<<"A", "D", "D", " ", "A", ",", " ", "C">>),
    Text(<<"N", "O", "P", " ", "A">>),
    Text(<<"L", "D", " ", "A", ",", " ", "5", "G">>),
    Text(<<"J", "P", " ", "F", "O", "O">>),
    Text(<<"h", "a", "l", "t", " ", ";", " ", "s", "t", "o", "p">>),
    \* NOP, then a form feed
    Text(<<"N", "O", "P">>) \o <<12>>,
    \* LD A, 05 with a no-break space and a vertical tab for the blanks
    Text(<<"L", "D">>) \o <<160>> \o Text(<<"A", ",">>) \o <<11>> \o Text(<<"0", "5">>),
    Text(<<"L", "D", " ", "A", ",", " ", "8", "0", "0", "0", "0", "0", "0", "0">>),
    Text(<<"J", "P", " ", "1", "2", "3", "4", "5", "6", "7", "8", "9">>),
    Text(<<"L", "D", " ", "A", ",", " ", "F", "F", "F", "F", "F", "F", "F", "F",
           "F", "F", "F", "F", "F", "F", "F", "F", "F", "F", "F", "F">>),
    \* a sharp s, which toUpperCase turns into SS
    <<223>>,
    \* inc a with a dotless i, which toUpperCase turns into I
    <<305>> \o Text(<<"n", "c", " ", "a">>),
    \* ld a, and the ligature ff, which toUpperCase turns into FF
    Text(<<"l", "d", " ", "a", ",", " ">>) \o <<64256>>
>>

\* the texts of at most MaxLines lines of the pool, joined by line breaks
PoolSources ==
    LET picks == UNION {[1..n -> 1..Len(LinePool)] : n \in 0..MaxLines}
    IN {join([k \in DOMAIN pick |-> LinePool[pick[k]]], <<LineFeed>>) : pick \in picks}

\* the texts the user may type
Sources == PoolSources \cup {INITIAL_CODE, DemoSource}

\* the first render: useState(() => new Z80Emulator()),
\* useState(cpu.getState()), whose snapshot shares the registers with the
\* emulator and holds a copy of the memory, and useState(INITIAL_CODE)
FirstRender ==
    LET st  == [registers |-> 1, memory |-> 1,
                halted |-> resetState.halted, cycles |-> resetState.cycles]
        rh  == <<resetState.registers>>
        out == getState(st, <<resetState.memory>>)
    IN /\ regHeap  = rh
       /\ memHeap  = out.memHeap
       /\ state    = st
       /\ snapshot = out.object
       /\ returned = Deep(out.object, rh, out.memHeap)
       /\ call     = NoCall
       /\ total    = 0
       /\ calls    = 0
       /\ edits    = 0
       /\ app      = [NoApp EXCEPT !.code = INITIAL_CODE]
       /\ result   = NoResult

InitAsm == FirstRender

\* the editor's onChange: setCode(e.target.value)
DoSetCode(text) ==
    /\ app' = [app EXCEPT !.code = text]
    /\ call' = [NoCall EXCEPT !.op = "setCode"]
    /\ calls' = calls + 1
    /\ UNCHANGED <<regHeap, memHeap, state, snapshot, returned, total, edits, result>>

\* the emulator takes the machine m, then updateState(): setState(cpu.getState())
CommitAndUpdateState(m) ==
    LET st == [state EXCEPT !.halted = m.halted, !.cycles = m.cycles]
        rh == [regHeap EXCEPT ![state.registers] = m.registers]
        mh == [memHeap EXCEPT ![state.memory] = m.memory]
        out == getState(st, mh)
    IN /\ regHeap'  = rh
       /\ state'    = st
       /\ memHeap'  = out.memHeap
       /\ snapshot' = out.object
       /\ returned' = Deep(out.object, rh, out.memHeap)

\* handleAssemble
DoAssemble ==
    /\ \E out \in {assemble(app.code)} :
          \E m \in {loadProgram(Live, 0, out.bytes)} :
             /\ result' = out
             /\ CommitAndUpdateState(m)
             /\ app' = [app EXCEPT !.addressToLineMap = out.addressToLineMap,
                                   !.previousPC = m.registers.pc]
             /\ call' = [NoCall EXCEPT !.op = "handleAssemble", !.bytes = out.bytes]
    /\ calls' = calls + 1
    /\ UNCHANGED <<total, edits>>

\* handleAssemble, run once when the driver mounts
HandleAssemble ==
    /\ calls = 0
    /\ DoAssemble

\* handleStep: setPreviousPC(pc); cpu.step(); updateState()
DoHandleStep ==
    /\ \E out \in {step(Live)} :
          /\ CommitAndUpdateState(out.m)
          /\ call' = [NoCall EXCEPT !.op = "step",
                                    !.opcode = IF IsHalted(Live) THEN Undefined
                                               ELSE FetchOpcode(Live),
                                    !.ret = out.ret, !.threw = out.threw]
          /\ total' = IF out.threw THEN total ELSE total + out.ret
    /\ app' = [app EXCEPT !.previousPC = Live.registers.pc]
    /\ calls' = calls + 1
    /\ UNCHANGED <<result, edits>>

\* right after the mount the user may replace the text
TypeCode ==
    /\ calls = 1
    /\ \E text \in Sources \ {INITIAL_CODE} : DoSetCode(text)

\* and then presses Assemble
HandleAssembleTyped ==
    /\ call.op = "setCode"
    /\ DoAssemble

\* the steps made since the text in the editor was assembled
StepsDone == calls - (IF app.code = INITIAL_CODE THEN 1 ELSE 3)

\* the user presses Step once the text in the editor is assembled
HandleStep ==
    /\ call.op \in {"handleAssemble", "step"}
    /\ StepsDone < MaxSteps
    /\ DoHandleStep

NextAsm ==
    \/ HandleAssemble
    \/ TypeCode
    \/ HandleAssembleTyped
    \/ HandleStep

SpecAsm == InitAsm /\ [][NextAsm]_vars

(***************************************************************************)
(* Vocabulary of the assembler's properties.                               *)
(***************************************************************************)
\* the lines of the source text in the editor, the first at index 1
SourceLines == split(app.code, LineFeed)

\* what a line of the pool says, read by hand: a supported form, with its
\* register and the base-16 value of its number, or no supported form
NoForm         == [form |-> "none", reg |-> "", n |-> 0]
Plain(form)    == [form |-> form, reg |-> "", n |-> 0]
LdForm(reg, n) == [form |-> "LD", reg |-> reg, n |-> n]
JpForm(w)      == [form |-> "JP", reg |-> "", n |-> w]

PoolForms == <<
    Plain("NOP"),         \*  1  NOP
    Plain("HALT"),        \*  2  HALT
    Plain("XOR A"),       \*  3  XOR A
    LdForm("A", 5),       \*  4  LD A, 05
    LdForm("B", 10),      \*  5  LD B, 0A
    Plain("ADD A,B"),     \*  6  ADD A, B
    Plain("INC A"),       \*  7  INC A
    Plain("DEC A"),       \*  8  DEC A
    JpForm(4660),         \*  9  JP 1234
    NoForm,               \* 10  blank
    NoForm,               \* 11  ; Clear
    LdForm("C", 255),     \* 12    ld c, ff ; x
    NoForm,               \* 13  FOO BAR: unknown mnemonic
    LdForm("H", 511),     \* 14  LD H, 1FF
    JpForm(74565),        \* 15  JP 12345
    LdForm("D", 22),      \* 16  LD D, 16
    LdForm("E", 30),      \* 17  LD E,1e
    LdForm("L", 46),      \* 18  LD L, 2E
    NoForm,               \* 19  LD X, 05: no such register
    NoForm,               \* 20  LD A: missing operand
    NoForm,               \* 21  ADD A, C: not a supported operand
    NoForm,               \* 22  NOP A: extra operand
    NoForm,               \* 23  LD A, 5G: malformed operand
    NoForm,               \* 24  JP FOO: malformed operand
    Plain("HALT"),        \* 25  halt ; stop
    Plain("NOP"),         \* 26  NOP, form feed
    LdForm("A", 5),       \* 27  LD A, 05 with other white space
    LdForm("A", 0),       \* 28  LD A, 80000000, which is 0 modulo 65536
    JpForm(26505),        \* 29  JP 123456789, which is 0x6789 modulo 65536
    LdForm("A", 65535),   \* 30  LD A, FFFFFFFFFFFFFFFFFFFF, 0xFFFF modulo 65536
    NoForm,               \* 31  sharp s: unknown mnemonic
    Plain("INC A"),       \* 32  inc a with a dotless i
    LdForm("A", 255)      \* 33  ld a, ff with the ligature
>>

InPool(line) == \E k \in 1..Len(LinePool) : LinePool[k] = line

FormOf(line) == PoolForms[CHOOSE k \in 1..Len(LinePool) : LinePool[k] = line]

\* the addresses the map gives to the line with the zero-based index i
AddressesOf(res, i) ==
    {x \in DOMAIN res.addressToLineMap : res.addressToLineMap[x] = i}

(***************************************************************************)
(* C18: a line that is not of a supported form (unknown mnemonic,          *)
(* malformed operand, missing or extra operands) contributes no bytes and  *)
(* no map entries, so the result of assemble equals that of the source     *)
(* without the line, up to line indices.                                   *)
(***************************************************************************)
\* the source text without its line of zero-based index i
WithoutLine(lines, i) ==
    join(SubSeq(lines, 1, i) \o SubSeq(lines, i + 2, Len(lines)), <<LineFeed>>)

\* res is the result other with the line of index i put back
SameUpToLineIndices(res, other, i) ==
    /\ res.bytes = other.bytes
    /\ DOMAIN res.addressToLineMap = DOMAIN other.addressToLineMap
    /\ \A x \in DOMAIN res.addressToLineMap :
          other.addressToLineMap[x] =
             IF res.addressToLineMap[x] > i THEN res.addressToLineMap[x] - 1
             ELSE res.addressToLineMap[x]

C18_UnsupportedLineEmitsNothing ==
    [][Called("handleAssemble")
        => \A i \in 0..(Len(SourceLines) - 1) :
              (InPool(SourceLines[i + 1]) /\ FormOf(SourceLines[i + 1]) = NoForm)
                 => /\ AddressesOf(result', i) = {}
                    /\ SameUpToLineIndices(result',
                                           assemble(WithoutLine(SourceLines, i)), i)]_vars

(***************************************************************************)
(* C19: the keys of addressToLineMap are exactly 0 .. bytes.length-1, each *)
(* address maps to the index of the line that emitted its byte, a line     *)
(* that emits no bytes is the value of no entry, and the mapped indices    *)
(* are non-decreasing in the address.                                      *)
(***************************************************************************)
\* the address of the first byte of the line of index i: the bytes the
\* lines before it emit
RECURSIVE StartOf(_, _)
StartOf(lines, i) ==
    IF i = 0 THEN 0
    ELSE StartOf(lines, i - 1) + Len(bytesForThisLine(lines[i]))

C19_MapCoversBytes ==
    [][Called("handleAssemble")
        => /\ DOMAIN result'.addressToLineMap = 0..(Len(result'.bytes) - 1)
           /\ \A i \in 0..(Len(SourceLines) - 1) :
                 LET emitted == bytesForThisLine(SourceLines[i + 1])
                     first == StartOf(SourceLines, i)
                 IN /\ AddressesOf(result', i) = first..(first + Len(emitted) - 1)
                    /\ \A k \in 1..Len(emitted) : result'.bytes[first + k] = emitted[k]
           /\ \A x \in DOMAIN result'.addressToLineMap :
                 result'.addressToLineMap[x] \in 0..(Len(SourceLines) - 1)
           /\ \A x \in DOMAIN result'.addressToLineMap,
                 y \in DOMAIN result'.addressToLineMap :
                 x <= y => result'.addressToLineMap[x] <= result'.addressToLineMap[y]]_vars

C19_Witness ==
    /\ call.op = "handleAssemble"
    /\ app.code = INITIAL_CODE
    /\ DOMAIN result.addressToLineMap = 0..10
    /\ result.addressToLineMap[0] = 2
    /\ result.addressToLineMap[7] = 12 /\ result.addressToLineMap[9] = 12
    /\ result.addressToLineMap[10] = 13

(***************************************************************************)
(* C20: a supported line emits NOP -> [0x00]; HALT -> [0x76]; XOR A ->     *)
(* [0xAF]; INC A -> [0x3C]; DEC A -> [0x3D]; ADD A,B -> [0x80]; LD r,n ->  *)
(* [the opcode of r, n mod 256]; JP w -> [0xC3, w mod 256, (w div 256) mod *)
(* 256], n and w read in base 16, comments and letter case ignored; every  *)
(* emitted byte is in 0..255.                                              *)
(***************************************************************************)
LdOpcode(reg) ==
    CASE reg = "B" -> 6
      [] reg = "C" -> 14
      [] reg = "D" -> 22
      [] reg = "E" -> 30
      [] reg = "H" -> 38
      [] reg = "L" -> 46
      [] reg = "A" -> 62

ExpectedBytes(f) ==
    CASE f.form = "NOP"     -> <<0>>
      [] f.form = "HALT"    -> <<118>>
      [] f.form = "XOR A"   -> <<175>>
      [] f.form = "INC A"   -> <<60>>
      [] f.form = "DEC A"   -> <<61>>
      [] f.form = "ADD A,B" -> <<128>>
      [] f.form = "LD"      -> <<LdOpcode(f.reg), f.n % 256>>
      [] f.form = "JP"      -> <<195, f.n % 256, (f.n \div 256) % 256>>

\* the bytes at the addresses the map gives to the line of index i
EmittedBy(res, i) ==
    LET addresses == AddressesOf(res, i)
        first == CHOOSE x \in addresses : \A y \in addresses : x <= y
    IN [k \in 1..Cardinality(addresses) |-> res.bytes[first + k]]

C20_Encodings ==
    [][Called("handleAssemble")
        => /\ IsByteSeq(result'.bytes)
           /\ \A i \in 0..(Len(SourceLines) - 1) :
                 (InPool(SourceLines[i + 1]) /\ FormOf(SourceLines[i + 1]) # NoForm)
                    => /\ AddressesOf(result', i) # {}
                       /\ EmittedBy(result', i) = ExpectedBytes(FormOf(SourceLines[i + 1]))]_vars

(***************************************************************************)
(* C11: assembling XOR A / LD A, 05 / LD B, 0A / ADD A, B / INC A / HALT,  *)
(* loading the bytes at 0 on a fresh emulator and stepping yields, step by *)
(* step, A=0, A=0x05, B=0x0A, A=0x0F, A=0x10, halted; the seventh step     *)
(* returns 0 and changes no register, memory byte or flag.                 *)
(***************************************************************************)
C11_EndToEnd ==
    [][(app.code = DemoSource /\ Called("step"))
        => /\ ~call'.threw
           /\ StepsDone = 0 => Live'.registers.a = 0
           /\ StepsDone = 1 => Live'.registers.a = 5
           /\ StepsDone = 2 => Live'.registers.b = 10
           /\ StepsDone = 3 => Live'.registers.a = 15
           /\ StepsDone = 4 => Live'.registers.a = 16
           /\ StepsDone = 5 => Live'.halted
           /\ StepsDone < 5 => ~Live'.halted
           /\ StepsDone = 6 => (call'.ret = 0 /\ Live' = Live)]_vars

C11_Witness ==
    /\ app.code = DemoSource
    /\ result.bytes = <<175, 62, 5, 6, 10, 128, 60, 118>>
    /\ call.op = "step" /\ StepsDone = 7 /\ call.ret = 0
    /\ Live.halted
    /\ Live.registers.a = 16 /\ Live.registers.b = 10
    /\ Live.registers.pc = 8

(***************************************************************************)
(* Execution of every opcode byte from every value of the flags register.  *)
(***************************************************************************)
\* the opcodes whose case of the switch calls setFlags
FlagOpcodes == {60, 61, 128, 175}

InitFlags ==
    \/ \E opcode \in Byte, f \in Byte :
          InitMachine(ExecMachine(0, 0, f, 0, opcode, 254, 18))
    \/ \E opcode \in FlagOpcodes, f \in Byte, a \in ByteSamples, b \in ByteSamples :
          InitMachine(ExecMachine(a, b, f, 0, opcode, 0, 0))

NextFlags == ExecStep

SpecFlags == InitFlags /\ [][NextFlags]_vars

(***************************************************************************)
(* C21: for every opcode byte and every prior F, step() leaves bits 5 (Y)  *)
(* and 3 (X) of F unchanged, and NOP, LD r,n, JP, JR, HALT and every       *)
(* unimplemented opcode leave the whole of F unchanged.                    *)
(***************************************************************************)
NoFlagRule(opcode) ==
    \/ opcode \in {0, 6, 14, 22, 30, 38, 46, 62, 195, 24, 118}
    \/ Unimplemented(opcode)

C21_YXUntouched ==
    [][Called("step")
        => /\ ~call'.threw
           /\ Flag(Live'.registers.f, 5) = Flag(Live.registers.f, 5)
           /\ Flag(Live'.registers.f, 3) = Flag(Live.registers.f, 3)
           /\ NoFlagRule(FetchOpcode(Live)) => Live'.registers.f = Live.registers.f]_vars

\* INC A from A = 0xFF with every flag set: Z and H come out set, S, P/V
\* and N cleared, and Y, X and C are kept
C21_Witness ==
    /\ call.op = "step" /\ call.opcode = 60
    /\ Live.registers.a = 0
    /\ Live.registers.f = 121

(***************************************************************************)
(* The driver's events: Step, Run, Pause, Reset, typing a text, Assemble,  *)
(* the register and memory editors, the ticks of the run interval, and the *)
(* unmount.                                                                *)
(***************************************************************************)
\* the number of events of one behaviour, the mount's assemble included
MaxEvents == 6

\* the number of register and memory edits among them
MaxAppEdits == 1

\* for (let i = 0; i < 50; i++) cpu.step()
StepsPerTick == 50

\* LD B, 0A / HALT
HaltSource ==
    Text(<<"L", "D", " ", "B", ",", " ", "0", "A", "\n", "H", "A", "L", "T">>)

\* what the user types in the place of INITIAL_CODE, which loops for ever
AppSources == {HaltSource}

\* what the editors are given: a value wider than a byte, and HALT at 0
AppRegValues    == {257}
AppMemAddresses == {0}
AppMemValues    == {118}

InitApp == FirstRender

\* handleRun: if (runInterval.current) return; setIsRunning(true);
\* runInterval.current = window.setInterval(...)
handleRun(a) ==
    IF a.runInterval # Null THEN a
    ELSE [a EXCEPT !.isRunning = TRUE,
                   !.runInterval = a.lastInterval + 1,
                   !.intervals = a.intervals \cup {a.lastInterval + 1},
                   !.lastInterval = a.lastInterval + 1]

\* variant of handlePause: the reference is dropped, the interval not cleared
handlePause_keepsInterval(a) ==
    [a EXCEPT !.runInterval = Null, !.isRunning = FALSE]

\* handlePause, before its updateState()
handlePause(a) ==
    [a EXCEPT !.intervals = IF a.runInterval # Null
                            THEN a.intervals \ {a.runInterval} ELSE a.intervals,
              !.runInterval = Null,
              !.isRunning = FALSE]

\* variant of handleReset: the emulator is taken out of the halted state
handleReset_unhalts(m) ==
    [setRegister(setRegister(setRegister(setRegister(
        loadProgram(m, 0, << >>), "pc", 0), "sp", 65535), "a", 0), "f", 0)
     EXCEPT !.halted = FALSE]

\* the calls handleReset makes on the emulator
handleReset(m) ==
    setRegister(setRegister(setRegister(setRegister(
        loadProgram(m, 0, << >>), "pc", 0), "sp", 65535), "a", 0), "f", 0)

\* the unmount cleanup: if (runInterval.current) clearInterval(runInterval.current)
cleanup(a) ==
    [a EXCEPT !.intervals = IF a.runInterval # Null
                            THEN a.intervals \ {a.runInterval} ELSE a.intervals,
              !.mounted = FALSE]

\* the loop of a tick from its n-th last round on: r holds the machine, the
\* number of step() calls made, the cycles they returned and whether the
\* last one threw, which ends the loop
RECURSIVE RunSteps(_, _)
RunSteps(r, n) ==
    IF n = 0 \/ r.threw THEN r
    ELSE RunSteps((LET out == step(r.m)
                   IN [m |-> out.m, steps |-> r.steps + 1,
                       ret |-> IF out.threw THEN r.ret ELSE r.ret + out.ret,
                       threw |-> out.threw]), n - 1)

\* one more event may happen
Event ==
    /\ calls >= 1
    /\ calls < MaxEvents

\* one more edit may be made
AppEdit ==
    /\ edits < MaxAppEdits
    /\ edits' = edits + 1

PressStep ==
    /\ Event /\ app.mounted
    /\ DoHandleStep

PressAssemble ==
    /\ Event /\ app.mounted
    /\ DoAssemble

SetCode ==
    /\ Event /\ app.mounted
    /\ \E text \in (AppSources \cup {INITIAL_CODE}) \ {app.code} : DoSetCode(text)

HandleRun ==
    /\ Event /\ app.mounted
    /\ app' = handleRun(app)
    /\ call' = [NoCall EXCEPT !.op = "handleRun"]
    /\ calls' = calls + 1
    /\ UNCHANGED <<regHeap, memHeap, state, snapshot, returned, total, edits, result>>

HandlePause ==
    /\ Event /\ app.mounted
    /\ app' = handlePause(app)
    /\ CommitAndUpdateState(Live)
    /\ call' = [NoCall EXCEPT !.op = "handlePause"]
    /\ calls' = calls + 1
    /\ UNCHANGED <<total, edits, result>>

HandleReset ==
    /\ Event /\ app.mounted
    /\ app' = handlePause(app)
    /\ CommitAndUpdateState(handleReset(Live))
    /\ call' = [NoCall EXCEPT !.op = "handleReset"]
    /\ calls' = calls + 1
    /\ UNCHANGED <<total, edits, result>>

HandleRegisterEdit(reg, val) ==
    /\ Event /\ app.mounted
    /\ AppEdit
    /\ CommitAndUpdateState(setRegister(Live, reg, val))
    /\ call' = [NoCall EXCEPT !.op = "handleRegisterEdit", !.reg = reg, !.value = val]
    /\ calls' = calls + 1
    /\ UNCHANGED <<total, app, result>>

HandleMemoryEdit(addr, val) ==
    /\ Event /\ app.mounted
    /\ AppEdit
    /\ CommitAndUpdateState(setMemory(Live, addr, val))
    /\ call' = [NoCall EXCEPT !.op = "handleMemoryEdit", !.address = addr, !.value = val]
    /\ calls' = calls + 1
    /\ UNCHANGED <<total, app, result>>

\* the window calls back an interval it still holds: setPreviousPC(pc);
\* 50 times cpu.step(); updateState(), which a throwing step() skips
Tick ==
    /\ Event
    /\ \E id \in app.intervals :
          \E out \in {RunSteps([m |-> Live, steps |-> 0, ret |-> 0, threw |-> FALSE],
                               StepsPerTick)} :
             /\ IF out.threw
                THEN Commit(out.m) /\ UNCHANGED <<snapshot, returned>>
                ELSE CommitAndUpdateState(out.m)
             /\ call' = [NoCall EXCEPT !.op = "tick", !.value = id,
                                       !.steps = out.steps, !.ret = out.ret,
                                       !.threw = out.threw]
             /\ total' = total + out.ret
    /\ app' = [app EXCEPT !.previousPC = Live.registers.pc]
    /\ calls' = calls + 1
    /\ UNCHANGED <<edits, result>>

Unmount ==
    /\ Event /\ app.mounted
    /\ app' = cleanup(app)
    /\ call' = [NoCall EXCEPT !.op = "unmount"]
    /\ calls' = calls + 1
    /\ UNCHANGED <<regHeap, memHeap, state, snapshot, returned, total, edits, result>>

NextApp ==
    \/ HandleAssemble
    \/ PressStep
    \/ PressAssemble
    \/ SetCode
    \/ HandleRun
    \/ HandlePause
    \/ HandleReset
    \/ \E reg \in RegNames, val \in AppRegValues : HandleRegisterEdit(reg, val)
    \/ \E addr \in AppMemAddresses, val \in AppMemValues : HandleMemoryEdit(addr, val)
    \/ Tick
    \/ Unmount

SpecApp == InitApp /\ [][NextApp]_vars

(***************************************************************************)
(* C22: after handleReset every register holds its construction value      *)
(* (all zero, sp = 0xFFFF, iff1 and iff2 false) and every memory byte is   *)
(* the same as before the reset.                                           *)
(***************************************************************************)
C22_ResetRestoresRegisters ==
    [][Called("handleReset")
        => /\ Live'.registers = resetState.registers
           /\ Live'.memory = Live.memory]_vars

(***************************************************************************)
(* C23: once a step has executed HALT, halted stays true through every     *)
(* later step, register edit, memory edit, program load, reset and         *)
(* assemble, and every later step() returns 0 and changes nothing.         *)
(***************************************************************************)
C23_HaltedForever ==
    [][Live.halted
        => /\ Live'.halted
           /\ Called("step") => (call'.ret = 0 /\ ~call'.threw /\ Live' = Live)
           /\ Called("tick") => (call'.ret = 0 /\ ~call'.threw /\ Live' = Live)]_vars

\* a reset after LD B, 0A and HALT were executed: pc is back at 0, where
\* the program still is, and the emulator is still halted
C23_Witness ==
    /\ Live.halted
    /\ call.op = "handleReset"
    /\ Live.registers.pc = 0
    /\ Live.registers.b = 10
    /\ ReadMem(Live.memory, 0) = 6

(***************************************************************************)
(* C25: at most one run interval exists at any time: handleRun while one   *)
(* is active starts no second one, handlePause and handleReset leave none  *)
(* active, no tick calls step() between a pause and the next handleRun,    *)
(* and each tick of the active interval calls step() exactly 50 times.     *)
(***************************************************************************)
C25_OneRunTimer ==
    [][/\ Cardinality(app'.intervals) <= 1
       /\ (Called("handleRun") /\ app.intervals # {})
             => app'.intervals = app.intervals
       /\ (Called("handlePause") \/ Called("handleReset"))
             => app'.intervals = {}
       /\ (app.intervals = {} /\ app'.intervals # {})
             => Called("handleRun")
       /\ Called("tick")
             => /\ app.isRunning
                /\ call'.value = app.runInterval
                /\ call'.steps = 50]_vars

\* Run, Pause, Run again, then a tick of the second interval
C25_Witness ==
    /\ call.op = "tick" /\ call.steps = 50
    /\ call.value = 2
    /\ app.intervals = {2}
    /\ app.runInterval = 2

(***************************************************************************)
(* C24: for a source whose byte-emitting lines are only NOP, XOR A,        *)
(* LD r,n, INC A, DEC A, ADD A,B and HALT, assembled and loaded at 0 on a  *)
(* fresh emulator, before the k-th step pc is the lowest address mapped to *)
(* the k-th byte-emitting line, the step consumes exactly that line's      *)
(* bytes, and addressToLineMap[pc] is defined, up to and including HALT.   *)
(***************************************************************************)
\* the indices of the lines that emitted bytes
EmittingLines(res) ==
    {res.addressToLineMap[x] : x \in DOMAIN res.addressToLineMap}

\* the k-th of them in source order
KthEmittingLine(res, k) ==
    CHOOSE i \in EmittingLines(res) :
        Cardinality({j \in EmittingLines(res) : j < i}) = k - 1

LowestAddressOf(res, i) ==
    CHOOSE x \in AddressesOf(res, i) : \A y \in AddressesOf(res, i) : x <= y

\* every byte-emitting line is of a supported form other than JP
StraightLineSource ==
    \A i \in EmittingLines(result) :
        /\ InPool(SourceLines[i + 1])
        /\ FormOf(SourceLines[i + 1]).form \in
              {"NOP", "XOR A", "LD", "INC A", "DEC A", "ADD A,B", "HALT"}

C24_LengthsAgree ==
    [][(/\ Called("step")
        /\ StraightLineSource
        /\ StepsDone < Cardinality(EmittingLines(result))
        /\ ~Live.halted)
        => LET i == KthEmittingLine(result, StepsDone + 1)
               pc == Live.registers.pc
           IN /\ pc = LowestAddressOf(result, i)
              /\ pc \in DOMAIN app.addressToLineMap
              /\ app.addressToLineMap[pc] = i
              /\ Live'.registers.pc = pc + Cardinality(AddressesOf(result, i))]_vars

\* the sixth step of the six-line program has executed HALT, the byte at
\* address 7 that line 5 emitted
C24_Witness ==
    /\ app.code = DemoSource
    /\ StepsDone = 6
    /\ call.op = "step" /\ call.opcode = 118
    /\ app.previousPC = 7
    /\ app.addressToLineMap[7] = 5
    /\ Live.registers.pc = 8

====
